---- MODULE Spec2Model ----
(***************************************************************************)
(* Graph authoring and persistence engine of the workflow whiteboard       *)
(* (src/src/WorkflowWhiteboard.jsx): the node list, the edge list, the     *)
(* selection, the module-level id counter and the localStorage slot, with  *)
(* one action per handler of the Flow and CustomNode components.           *)
(***************************************************************************)
EXTENDS Integers, Sequences, FiniteSets, TLC

VARIABLES
    nodes,          \* Flow: const [nodes, setNodes] = useState(initialNodes)
    edges,          \* Flow: const [edges, setEdges] = useState([])
    selectedNodes,  \* Flow: const [selectedNodes, setSelectedNodes] = useState([])
    deleteKey,      \* Flow: const deleteKey = useKeyPress(['Delete', 'Backspace'])
    nodeIdCounter,  \* module level: let nodeIdCounter = 3
    localData,      \* CustomNode: const [localData, setLocalData] = useState(data), per mounted node id
    isHovered,      \* CustomNode: const [isHovered, setIsHovered] = useState(false), per mounted node id
    showActions,    \* CustomNode: const [showActions, setShowActions] = useState(false), per mounted node id
    actionTimeout,  \* CustomNode: actionTimeout.current, the id of a timeout or 0 for null, per mounted node id
    timers,         \* browser: the timeouts that are set and have neither fired nor been cleared
    timerCount,     \* browser: the id setTimeout has returned last
    connectionNodeId, \* reactflow: the node whose source handle a connection is being dragged from
    dragging,       \* reactflow: the node that is being dragged over the canvas
    store,          \* reactflow: the node and edge lists of its store, which useReactFlow() reads
    storage,        \* localStorage item 'workflow' (survives a page reload)
    download,       \* the text of the last file handleExport offered for download
    pending,        \* React: the state updates a running handler has queued for the next render
    loaded,         \* history: the stored text the last handleLoad of this page session put in place
    issued,         \* history: ids returned by getNodeId in the current page session
    savedGraph,     \* history: the graph handed to the last handleSave
    roundTrip,      \* history: progress of a save, clear, load sequence
    sessions,       \* history: number of page loads so far
    last,           \* history: the handler that ran last, with its argument and result
    prev,           \* history: the lists, the selection, the stored item and the counter before that handler ran
    steps           \* history: number of handler runs so far

\* the hover state of the node components and the timeouts behind it
hover == <<isHovered, showActions, actionTimeout, timers, timerCount>>

vars == <<nodes, edges, selectedNodes, deleteKey, nodeIdCounter, localData, hover,
          connectionNodeId, dragging, store, storage, download, pending,
          loaded, issued, savedGraph, roundTrip, sessions, last, prev, steps>>

----------------------------------------------------------------------------
(* Bounds of the model *)

MaxSteps == 4       \* handler runs per behaviour
MaxSessions == 2    \* page loads explored
MaxTypes == 1       \* palette blocks that are dragged (a prefix of the catalog)
MaxLabels == 1      \* distinct new labels typed into the edit prompt
MaxTime == 1        \* distinct wall-clock readings taken by save

----------------------------------------------------------------------------
(* Strings *)

Digit == <<"0", "1", "2", "3", "4", "5", "6", "7", "8", "9">>

RECURSIVE NatToStr(_)
NatToStr(n) ==
    IF n < 10 THEN Digit[n + 1]
    ELSE NatToStr(n \div 10) \o Digit[(n % 10) + 1]

----------------------------------------------------------------------------
(* Block catalog and initial graph.  A node carries the selected flag that  *)
(* reactflow keeps on it; a node object without the key reads as not        *)
(* selected.                                                                *)

NodeTypeNames ==
    <<"Deploy", "Constructor", "MintToken", "BurnToken", "Transfer", "Approve",
      "Swap", "AddLiquidity", "Stake", "Withdraw", "Require", "Modifier",
      "Event", "Mapping", "Array", "Struct", "Oracle", "Interface", "Payable">>

EmptyConfig == [k \in {} |-> ""]

\* the value of a key an object does not have
Undefined == [isUndefined |-> TRUE]

\* nodeTypes[type]: the entry of the catalog, of which the model keeps the key
NodeTypesEntry(type) ==
    IF \E i \in DOMAIN NodeTypeNames : NodeTypeNames[i] = type
    THEN [isUndefined |-> FALSE, key |-> type]
    ELSE Undefined

\* CustomNode: nodeTypes[data.type] || nodeTypes.Function
NodeTypeLookup(type) ==
    IF NodeTypesEntry(type) # Undefined
    THEN NodeTypesEntry(type)
    ELSE NodeTypesEntry("Function")

initialNodes ==
    << [ id |-> "node-1", type |-> "customNode",
         data |-> [ label |-> "Deploy Contract", type |-> "Deploy",
                    description |-> "Deploy smart contract to blockchain",
                    status |-> "idle",
                    config |-> [network |-> "ethereum", gasLimit |-> "3000000"] ],
         position |-> [x |-> 100, y |-> 100], selected |-> FALSE ],
       [ id |-> "node-2", type |-> "customNode",
         data |-> [ label |-> "Initialize Storage", type |-> "Constructor",
                    description |-> "Set initial contract state",
                    status |-> "idle",
                    config |-> [params |-> <<"owner", "totalSupply">>] ],
         position |-> [x |-> 400, y |-> 100], selected |-> FALSE ] >>

InitialCounter == 3

----------------------------------------------------------------------------
(* Helpers over the lists *)

Range(s) == {s[i] : i \in DOMAIN s}

NodeIds(ns) == {ns[i].id : i \in DOMAIN ns}

\* list.map(x => x.id)
Ids(s) == [i \in DOMAIN s |-> s[i].id]

----------------------------------------------------------------------------
(* Identifier generator *)

\* the string `node-${nodeIdCounter}` that getNodeId returns
GetNodeId(counter) == "node-" \o NatToStr(counter)

\* getNodeId without its increment
NextCounterStuck(counter) == counter

\* the post-increment nodeIdCounter++ of getNodeId
NextCounter(counter) == counter + 1

----------------------------------------------------------------------------
(* The reactflow store as the handlers read it.  The store keeps the nodes  *)
(* in a Map keyed by id that is rebuilt from the nodes prop in list order:  *)
(* an id that occurs twice keeps the slot of its first occurrence and the   *)
(* value of its last one.                                                   *)

LastIndexOf(ns, id) ==
    CHOOSE i \in DOMAIN ns :
        /\ ns[i].id = id
        /\ \A j \in DOMAIN ns : ns[j].id = id => j <= i

\* useReactFlow().getNodes()
GetNodes(ns) ==
    LET firsts == SelectSeq([i \in DOMAIN ns |-> i],
                            LAMBDA i : \A j \in 1..(i - 1) : ns[j].id # ns[i].id)
    IN  [k \in DOMAIN firsts |-> ns[LastIndexOf(ns, ns[firsts[k]].id)]]

\* useReactFlow().getEdges()
GetEdges(es) == es

\* useReactFlow().getNode(id); only called for an id that is present
GetNode(ns, id) == ns[LastIndexOf(ns, id)]

----------------------------------------------------------------------------
(* Node components: one CustomNode is mounted per node id (the React key);  *)
(* it copies data into localData when it mounts and keeps that copy until   *)
(* its id leaves the node list.                                             *)

Mounted(ld, ns) ==
    [id \in NodeIds(ns) |->
        IF id \in DOMAIN ld THEN ld[id] ELSE ns[LastIndexOf(ns, id)].data]

\* a useState(false) of the components that stay or mount
MountedFlag(flags, ns) ==
    [id \in NodeIds(ns) |-> IF id \in DOMAIN flags THEN flags[id] ELSE FALSE]

\* the useRef(null) of the components that stay or mount
MountedRef(refs, ns) ==
    [id \in NodeIds(ns) |-> IF id \in DOMAIN refs THEN refs[id] ELSE 0]

\* the cleanup of the effect of a component that unmounts:
\* if (actionTimeout.current) clearTimeout(actionTimeout.current)
ClearOnUnmount(ts, refs, ns) ==
    {t \in ts : ~(/\ t.node \notin NodeIds(ns)
                  /\ t.node \in DOMAIN refs
                  /\ refs[t.node] = t.id)}

\* the hover state of the components after a render of the node list ns
RenderNodes(ns) ==
    /\ isHovered' = MountedFlag(isHovered, ns)
    /\ showActions' = MountedFlag(showActions, ns)
    /\ actionTimeout' = MountedRef(actionTimeout, ns)
    /\ timers' = ClearOnUnmount(timers, actionTimeout, ns)
    /\ UNCHANGED timerCount

----------------------------------------------------------------------------
(* Persistence: JSON.stringify / JSON.parse of the workflow document.  The  *)
(* stored text is an object with its keys; it lists, per node and per edge, *)
(* the values in key order.                                                 *)

\* localStorage.getItem returns null: the slot holds no item
NoItem == [isNull |-> TRUE]

StringifyNode(n) ==
    <<n.id, n.type, n.position.x, n.position.y, n.data.label, n.data.type,
      n.data.description, n.data.status, n.data.config, n.selected>>

ParseNode(t) ==
    [ id |-> t[1], type |-> t[2], position |-> [x |-> t[3], y |-> t[4]],
      data |-> [ label |-> t[5], type |-> t[6], description |-> t[7],
                 status |-> t[8], config |-> t[9] ],
      selected |-> t[10] ]

StringifyEdge(e) == <<e.id, e.source, e.target>>

\* the edge read back with its ends exchanged
ParseEdgeSwapped(t) == [id |-> t[1], source |-> t[3], target |-> t[2]]

ParseEdge(t) == [id |-> t[1], source |-> t[2], target |-> t[3]]

\* JSON.stringify(workflow): every key of the object with its value
Stringify(workflow) ==
    [k \in DOMAIN workflow |->
        IF k = "nodes"
        THEN [i \in DOMAIN workflow.nodes |-> StringifyNode(workflow.nodes[i])]
        ELSE IF k = "edges"
        THEN [i \in DOMAIN workflow.edges |-> StringifyEdge(workflow.edges[i])]
        ELSE workflow[k]]

\* JSON.parse(saved): the keys the text has, and no others
Parse(saved) ==
    [k \in DOMAIN saved |->
        IF k = "nodes"
        THEN [i \in DOMAIN saved.nodes |-> ParseNode(saved.nodes[i])]
        ELSE IF k = "edges"
        THEN [i \in DOMAIN saved.edges |-> ParseEdge(saved.edges[i])]
        ELSE saved[k]]

\* const {nodes: savedNodes} = ...; savedNodes || []  (a key the document
\* lacks destructures to undefined)
OrEmpty(document, key) ==
    IF key \in DOMAIN document THEN document[key] ELSE <<>>

----------------------------------------------------------------------------
(* Inputs of the handlers *)

\* the blocks the user drags from the palette
PaletteTypes == {NodeTypeNames[i] : i \in 1..MaxTypes}

\* screenToFlowPosition({x: event.clientX, y: event.clientY})
DropPositions == {[x |-> 250, y |-> 300]}

\* what prompt() returns: null on cancel, otherwise the text of the field
PromptNull == [isNull |-> TRUE, text |-> ""]

PromptText(text) == [isNull |-> FALSE, text |-> text]

NewLabels == {"Label " \o NatToStr(i) : i \in 1..MaxLabels}

\* new Date().toISOString()
Timestamps == {"2024-01-0" \o NatToStr(i) \o "T00:00:00.000Z" : i \in 1..MaxTime}

NoGraph == <<"none">>

----------------------------------------------------------------------------
(* State after the page has loaded: module initialisation and first render *)

FreshPage ==
    /\ nodes = initialNodes
    /\ edges = <<>>
    /\ selectedNodes = <<>>
    /\ deleteKey = FALSE
    /\ nodeIdCounter = InitialCounter
    /\ localData = Mounted(<<>>, initialNodes)
    /\ isHovered = [id \in NodeIds(initialNodes) |-> FALSE]
    /\ showActions = [id \in NodeIds(initialNodes) |-> FALSE]
    /\ actionTimeout = [id \in NodeIds(initialNodes) |-> 0]
    /\ timers = {}
    /\ timerCount = 0
    /\ connectionNodeId = ""
    /\ dragging = ""
    /\ store = [nodes |-> initialNodes, edges |-> <<>>]
    /\ pending = <<>>
    /\ loaded = NoItem
    /\ issued = <<>>

Init ==
    /\ FreshPage
    /\ storage = NoItem
    /\ download = NoItem
    /\ savedGraph = NoGraph
    /\ roundTrip = 0
    /\ sessions = 1
    /\ last = [op |-> "init", id |-> ""]
    /\ prev = [nodes |-> <<>>, edges |-> <<>>, selectedNodes |-> <<>>,
               storage |-> NoItem, nodeIdCounter |-> InitialCounter]
    /\ steps = 0

----------------------------------------------------------------------------
\* one more handler run, which starts from the lists of the current state
Step ==
    /\ steps < MaxSteps
    /\ steps' = steps + 1
    /\ prev' = [nodes |-> nodes, edges |-> edges,
                selectedNodes |-> selectedNodes, storage |-> storage,
                nodeIdCounter |-> nodeIdCounter]

----------------------------------------------------------------------------
(* The keyboard effect of Flow, run after every render in which deleteKey   *)
(* or selectedNodes changed: it takes the rendered values and yields the    *)
(* node list, edge list and selection it leaves.                            *)

\* the effect without its setEdges call
DeleteKeyEffectNodesOnly(key, sel, ns, es) ==
    IF key /\ Len(sel) > 0
    THEN [ nodes |-> SelectSeq(ns, LAMBDA node : node.id \notin Range(sel)),
           edges |-> es,
           selectedNodes |-> <<>> ]
    ELSE [ nodes |-> ns, edges |-> es, selectedNodes |-> sel ]

DeleteKeyEffect(key, sel, ns, es) ==
    IF key /\ Len(sel) > 0
    THEN [ nodes |-> SelectSeq(ns, LAMBDA node : node.id \notin Range(sel)),
           edges |-> SelectSeq(es, LAMBDA edge : /\ edge.source \notin Range(sel)
                                              /\ edge.target \notin Range(sel)),
           selectedNodes |-> <<>> ]
    ELSE [ nodes |-> ns, edges |-> es, selectedNodes |-> sel ]

----------------------------------------------------------------------------
(* The selection listener (useOnSelectionChange): reactflow reports the     *)
(* store's nodes whose selected flag is set whenever the list of their ids  *)
(* changes, and onChange puts these ids into selectedNodes; the keyboard    *)
(* effect then runs because selectedNodes changed.                          *)

\* ({nodes}) => nodes.map(n => n.id) on the selected nodes of the store
SelectedIds(ns) == Ids(SelectSeq(GetNodes(ns), LAMBDA n : n.selected))

\* the listener told of additions to the selection only
AfterRenderAdditionsOnly(key, sel, ns, es) ==
    IF ~(Range(SelectedIds(ns)) \subseteq Range(sel))
    THEN DeleteKeyEffect(key, SelectedIds(ns), ns, es)
    ELSE [nodes |-> ns, edges |-> es, selectedNodes |-> sel]

\* the renders that follow a handler which left the lists ns and es, up to
\* the one after which nothing is pending
AfterRender(key, sel, ns, es) ==
    IF SelectedIds(ns) # sel
    THEN DeleteKeyEffect(key, SelectedIds(ns), ns, es)
    ELSE [nodes |-> ns, edges |-> es, selectedNodes |-> sel]

\* the store left one render behind: it gets the lists of the render before
StoreUpdaterLate(ns, es) == [nodes |-> nodes, edges |-> edges]

\* reactflow's StoreUpdater, an effect of <ReactFlow nodes={nodes}
\* edges={edges}>: after a render it puts the rendered lists into the store
StoreUpdater(ns, es) == [nodes |-> ns, edges |-> es]

\* the state a handler leaves once its updates are rendered
Render(ns, es) ==
    LET after == AfterRender(deleteKey, selectedNodes, ns, es)
    IN  /\ nodes' = after.nodes
        /\ edges' = after.edges
        /\ selectedNodes' = after.selectedNodes
        /\ store' = StoreUpdater(after.nodes, after.edges)

----------------------------------------------------------------------------
(* CustomNode handlers.  Their setNodes and setEdges are those of           *)
(* useReactFlow(): the updater is applied to the store's lists and the      *)
(* result replaces the lists of Flow through onNodesChange / onEdgesChange. *)

\* the label test of handleEdit
EditApplies(newLabel, shown) ==
    /\ ~newLabel.isNull
    /\ newLabel.text # ""
    /\ newLabel.text # shown.label

HandleEdit(id, newLabel) ==
    /\ Step
    /\ id \in NodeIds(nodes)
    /\ IF EditApplies(newLabel, localData[id])
       THEN /\ Render([i \in DOMAIN GetNodes(store.nodes) |->
                          LET node == GetNodes(store.nodes)[i]
                          IN  IF node.id = id
                              THEN [node EXCEPT !.data.label = newLabel.text]
                              ELSE node],
                      edges)
            /\ localData' = [Mounted(localData, nodes') EXCEPT
                                ![id].label = newLabel.text]
            /\ last' = [op |-> "edit", id |-> id, entered |-> newLabel]
       ELSE /\ UNCHANGED <<nodes, edges, selectedNodes, store, localData>>
            /\ last' = [op |-> "editSkipped", id |-> id, entered |-> newLabel]
    /\ RenderNodes(nodes')
    /\ roundTrip' = 0
    /\ UNCHANGED <<deleteKey, nodeIdCounter, connectionNodeId, storage, download, loaded,
                   issued, savedGraph, sessions, dragging, pending>>

\* handleDelete with the test of the node filter inverted
DeleteNodeInverted(ns, id) == SelectSeq(ns, LAMBDA node : node.id = id)

\* handleDelete with the edge filter looking at the source only
DeleteNodeFromEdgesBySource(es, id) == SelectSeq(es, LAMBDA edge : edge.source # id)

\* setNodes / setEdges updaters of handleDelete
DeleteNodeFromNodes(ns, id) == SelectSeq(ns, LAMBDA node : node.id # id)

DeleteNodeFromEdges(es, id) ==
    SelectSeq(es, LAMBDA edge : edge.source # id /\ edge.target # id)

HandleDelete(id, confirmed) ==
    /\ Step
    /\ id \in NodeIds(nodes)
    /\ IF confirmed
       THEN /\ Render(DeleteNodeFromNodes(GetNodes(store.nodes), id),
                      DeleteNodeFromEdges(GetEdges(store.edges), id))
            /\ last' = [op |-> "delete", id |-> id]
       ELSE /\ UNCHANGED <<nodes, edges, selectedNodes, store>>
            /\ last' = [op |-> "deleteDeclined", id |-> id]
    /\ localData' = Mounted(localData, nodes')
    /\ RenderNodes(nodes')
    /\ roundTrip' = 0
    /\ UNCHANGED <<deleteKey, nodeIdCounter, connectionNodeId, storage, download, loaded, issued,
                   savedGraph, sessions, dragging, pending>>

\* the newNode object of handleDuplicate: {...currentNode, id, position, data}
DuplicateOf(currentNode, newId) ==
    [currentNode EXCEPT
        !.id = newId,
        !.position = [x |-> currentNode.position.x + 50,
                      y |-> currentNode.position.y + 50],
        !.data.label = currentNode.data.label \o " (Copy)"]

HandleDuplicate(id) ==
    /\ Step
    /\ id \in NodeIds(nodes)
    /\ IF id \in NodeIds(store.nodes)
       THEN LET newId == GetNodeId(nodeIdCounter)
            IN  /\ Render(Append(GetNodes(store.nodes),
                                 DuplicateOf(GetNode(store.nodes, id), newId)),
                          edges)
                /\ issued' = Append(issued, newId)
                /\ last' = [op |-> "duplicate", id |-> id, newId |-> newId]
                /\ nodeIdCounter' = NextCounter(nodeIdCounter)
       ELSE /\ UNCHANGED <<nodes, edges, selectedNodes, store, issued,
                           nodeIdCounter>>
            /\ last' = [op |-> "duplicateSkipped", id |-> id]
    /\ localData' = Mounted(localData, nodes')
    /\ RenderNodes(nodes')
    /\ roundTrip' = 0
    /\ UNCHANGED <<deleteKey, connectionNodeId, storage, download, loaded, savedGraph, sessions, dragging, pending>>

----------------------------------------------------------------------------
(* The hover action bar of a node: the pointer enters or leaves the node,   *)
(* and the bar is shown or hidden by a timeout that the handler sets.       *)

\* if (actionTimeout.current) clearTimeout(actionTimeout.current)
ClearTimeout(ts, ref) == IF ref # 0 THEN {t \in ts : t.id # ref} ELSE ts

\* the timeout handleMouseEnter or handleMouseLeave sets for the node
SetTimeout(id, show) == [id |-> timerCount + 1, node |-> id, show |-> show]

HandleMouseEnter(id) ==
    /\ Step
    /\ id \in NodeIds(nodes)
    /\ isHovered' = [isHovered EXCEPT ![id] = TRUE]
    /\ timers' = ClearTimeout(timers, actionTimeout[id]) \cup {SetTimeout(id, TRUE)}
    /\ actionTimeout' = [actionTimeout EXCEPT ![id] = timerCount + 1]
    /\ timerCount' = timerCount + 1
    /\ last' = [op |-> "mouseEnter", id |-> id]
    /\ roundTrip' = 0
    /\ UNCHANGED <<nodes, edges, selectedNodes, store, deleteKey,
                   nodeIdCounter, localData, showActions, connectionNodeId,
                   dragging, storage, download, pending, loaded, issued,
                   savedGraph, sessions>>

\* handleMouseLeave that leaves the timeout of the enter in place
HandleMouseLeaveKeeping(id) ==
    /\ Step
    /\ id \in NodeIds(nodes)
    /\ isHovered' = [isHovered EXCEPT ![id] = FALSE]
    /\ timers' = timers \cup {SetTimeout(id, FALSE)}
    /\ actionTimeout' = [actionTimeout EXCEPT ![id] = timerCount + 1]
    /\ timerCount' = timerCount + 1
    /\ last' = [op |-> "mouseLeave", id |-> id]
    /\ roundTrip' = 0
    /\ UNCHANGED <<nodes, edges, selectedNodes, store, deleteKey,
                   nodeIdCounter, localData, showActions, connectionNodeId,
                   dragging, storage, download, pending, loaded, issued,
                   savedGraph, sessions>>

HandleMouseLeave(id) ==
    /\ Step
    /\ id \in NodeIds(nodes)
    /\ isHovered' = [isHovered EXCEPT ![id] = FALSE]
    /\ timers' = ClearTimeout(timers, actionTimeout[id]) \cup {SetTimeout(id, FALSE)}
    /\ actionTimeout' = [actionTimeout EXCEPT ![id] = timerCount + 1]
    /\ timerCount' = timerCount + 1
    /\ last' = [op |-> "mouseLeave", id |-> id]
    /\ roundTrip' = 0
    /\ UNCHANGED <<nodes, edges, selectedNodes, store, deleteKey,
                   nodeIdCounter, localData, showActions, connectionNodeId,
                   dragging, storage, download, pending, loaded, issued,
                   savedGraph, sessions>>

\* a timeout expires: its callback calls setShowActions; it does not reset
\* actionTimeout.current
TimerFires(t) ==
    /\ t \in timers
    /\ timers' = timers \ {t}
    /\ showActions' = IF t.node \in DOMAIN showActions
                      THEN [showActions EXCEPT ![t.node] = t.show]
                      ELSE showActions
    /\ last' = [op |-> "timer", id |-> t.node]
    /\ UNCHANGED <<nodes, edges, selectedNodes, store, deleteKey,
                   nodeIdCounter, localData, isHovered, actionTimeout,
                   timerCount, connectionNodeId, dragging, storage, download,
                   pending, loaded, issued, savedGraph, roundTrip, sessions,
                   prev, steps>>

\* the browser runs the callback of a timeout that is due
TimerExpires == \E t \in timers : TimerFires(t)

----------------------------------------------------------------------------
(* Flow handlers *)

\* applyNodeChanges with the select changes reactflow emits when the user
\* clicks or marquees the nodes S: the flag is set on these and reset on the
\* others
SelectNodes(ns, S) == [i \in DOMAIN ns |-> [ns[i] EXCEPT !.selected = (ns[i].id \in S)]]

\* the user changes the selection; onNodesChange, the selection listener and
\* the keyboard effect follow
SelectionChange(S) ==
    /\ Step
    /\ S \subseteq NodeIds(nodes)
    /\ SelectNodes(nodes, S) # nodes
    /\ Render(SelectNodes(nodes, S), edges)
    /\ localData' = Mounted(localData, nodes')
    /\ RenderNodes(nodes')
    /\ last' = [op |-> "select", id |-> ""]
    /\ roundTrip' = 0
    /\ UNCHANGED <<deleteKey, nodeIdCounter, connectionNodeId, storage, download, loaded, issued,
                   savedGraph, sessions, dragging, pending>>

\* Delete or Backspace goes down: useKeyPress turns true, the effect runs
KeyDown ==
    /\ Step
    /\ ~deleteKey
    /\ deleteKey' = TRUE
    /\ LET after == DeleteKeyEffect(TRUE, selectedNodes, nodes, edges)
       IN  /\ nodes' = after.nodes
           /\ edges' = after.edges
           /\ selectedNodes' = after.selectedNodes
           /\ store' = StoreUpdater(after.nodes, after.edges)
    /\ localData' = Mounted(localData, nodes')
    /\ RenderNodes(nodes')
    /\ last' = [op |-> "keyDown", id |-> ""]
    /\ roundTrip' = 0
    /\ UNCHANGED <<nodeIdCounter, connectionNodeId, storage, download, loaded, issued,
                   savedGraph, sessions, dragging, pending>>

\* the key goes up: useKeyPress turns false, the effect runs and does nothing
KeyUp ==
    /\ Step
    /\ deleteKey
    /\ deleteKey' = FALSE
    /\ LET after == DeleteKeyEffect(FALSE, selectedNodes, nodes, edges)
       IN  /\ nodes' = after.nodes
           /\ edges' = after.edges
           /\ selectedNodes' = after.selectedNodes
           /\ store' = StoreUpdater(after.nodes, after.edges)
    /\ localData' = Mounted(localData, nodes')
    /\ RenderNodes(nodes')
    /\ last' = [op |-> "keyUp", id |-> ""]
    /\ roundTrip' = 0
    /\ UNCHANGED <<nodeIdCounter, connectionNodeId, storage, download, loaded, issued,
                   savedGraph, sessions, dragging, pending>>

\* the pointer goes down on the source handle of a rendered node: reactflow
\* starts a connection drag (the application registers no onConnectStart)
OnConnectStart(source) ==
    /\ Step
    /\ connectionNodeId = ""
    /\ source \in NodeIds(nodes)
    /\ connectionNodeId' = source
    /\ last' = [op |-> "connectStart", id |-> source]
    /\ roundTrip' = 0
    /\ UNCHANGED <<nodes, edges, selectedNodes, store, deleteKey, nodeIdCounter,
                   localData, hover, storage, download, loaded, issued, savedGraph,
                   sessions, dragging, pending>>

\* the pointer goes up away from every handle: the drag ends, no handler of
\* the application runs
OnConnectEnd ==
    /\ Step
    /\ connectionNodeId # ""
    /\ connectionNodeId' = ""
    /\ last' = [op |-> "connectEnd", id |-> connectionNodeId]
    /\ roundTrip' = 0
    /\ UNCHANGED <<nodes, edges, selectedNodes, store, deleteKey, nodeIdCounter,
                   localData, hover, storage, download, loaded, issued, savedGraph,
                   sessions, dragging, pending>>

\* screen positions the pointer drags a node to
DragPositions == {[x |-> 160, y |-> 220]}

\* the pointer goes down on a node and starts to move: reactflow starts a
\* node drag and, as selectNodesOnDrag is on, makes the node the selection
\* unless it is selected already
OnNodeDragStart(id) ==
    /\ Step
    /\ dragging = ""
    /\ id \in NodeIds(nodes)
    /\ LET isSelected == \E i \in DOMAIN store.nodes :
                             store.nodes[i].id = id /\ store.nodes[i].selected
       IN  Render(IF isSelected THEN nodes ELSE SelectNodes(nodes, {id}), edges)
    /\ dragging' = id
    /\ localData' = Mounted(localData, nodes')
    /\ RenderNodes(nodes')
    /\ last' = [op |-> "dragStart", id |-> id]
    /\ roundTrip' = 0
    /\ UNCHANGED <<deleteKey, nodeIdCounter, connectionNodeId, storage,
                   download, loaded, issued, savedGraph, sessions, pending>>

\* applyNodeChanges with a position change: the node with this id gets the
\* position, a list without such a node stays as it is
ApplyPositionChange(ns, id, position) ==
    [i \in DOMAIN ns |->
        IF ns[i].id = id THEN [ns[i] EXCEPT !.position = position] ELSE ns[i]]

\* the pointer moves with the button down: reactflow sends a position change
\* for the node the drag started on to onNodesChange
OnNodeDrag(position) ==
    /\ Step
    /\ dragging # ""
    /\ Render(ApplyPositionChange(nodes, dragging, position), edges)
    /\ localData' = Mounted(localData, nodes')
    /\ RenderNodes(nodes')
    /\ last' = [op |-> "move", id |-> dragging, position |-> position]
    /\ roundTrip' = 0
    /\ UNCHANGED <<deleteKey, nodeIdCounter, connectionNodeId, dragging,
                   storage, download, loaded, issued, savedGraph, sessions,
                   pending>>

\* the button goes up: the drag ends
OnNodeDragStop ==
    /\ Step
    /\ dragging # ""
    /\ dragging' = ""
    /\ last' = [op |-> "dragStop", id |-> dragging]
    /\ roundTrip' = 0
    /\ UNCHANGED <<nodes, edges, selectedNodes, store, deleteKey,
                   nodeIdCounter, localData, hover, connectionNodeId, storage,
                   download, loaded, issued, savedGraph, sessions, pending>>

\* the id onConnect gives the edge
EdgeId(source, target) == "edge-" \o source \o "-" \o target

\* reactflow addEdge: an edge between the same handles is not added again
\* (CustomNode renders one target and one source handle, both without id)
ConnectionExists(edge, es) ==
    \E i \in DOMAIN es : es[i].source = edge.source /\ es[i].target = edge.target

\* addEdge without the test for an existing connection
AddEdgeAlways(edge, es) == Append(es, edge)

AddEdge(edge, es) ==
    IF ConnectionExists(edge, es) THEN es ELSE Append(es, edge)

\* the pointer goes up on the target handle of a rendered node: reactflow
\* calls onConnect with the node the drag started from and this node
OnConnect(source, target) ==
    /\ Step
    /\ target \in NodeIds(nodes)
    /\ LET edge == [id |-> EdgeId(source, target), source |-> source,
                    target |-> target]
       IN  /\ edges' = AddEdge(edge, edges)
           /\ store' = StoreUpdater(nodes, AddEdge(edge, edges))
           /\ last' = [op |-> "connect", id |-> edge.id, source |-> source,
                       target |-> target]
    /\ connectionNodeId' = ""
    /\ roundTrip' = 0
    /\ UNCHANGED <<nodes, selectedNodes, deleteKey, nodeIdCounter, localData, hover,
                   storage, download, loaded, issued, savedGraph, sessions, dragging, pending>>

\* the newNode object of onDrop
DroppedNode(newId, label, nodeType, position) ==
    [ id |-> newId, type |-> "customNode", position |-> position,
      data |-> [ label |-> label, type |-> nodeType,
                 description |-> nodeType \o " node", status |-> "idle",
                 config |-> EmptyConfig ],
      selected |-> FALSE ]

\* event.dataTransfer.getData('application/reactflow') of a drop that
\* carries no such data: the empty string
NoData == <<>>

\* Sidebar.onDragStart with the block's key as the label as well
OnDragStartDataLabelOnly(nodeType) ==
    <<"customNode", "New " \o nodeType, "New " \o nodeType>>

\* Sidebar.onDragStart: JSON.stringify({type, label, nodeType}), the values
\* in key order
OnDragStartData(nodeType) == <<"customNode", "New " \o nodeType, nodeType>>

\* JSON.parse(data) of onDrop
ParseData(data) == [type |-> data[1], label |-> data[2], nodeType |-> data[3]]

\* what a drop on the canvas can carry: nothing, or the data of a palette
\* block (the palette lists the keys of the catalog)
PaletteData == {OnDragStartData(nodeType) : nodeType \in PaletteTypes}

DropData == {NoData} \cup PaletteData

\* onDrop that takes the id before it looks at the data
OnDropCounting(data, position) ==
    /\ Step
    /\ LET newId == GetNodeId(nodeIdCounter)
       IN  IF data = NoData
           THEN /\ UNCHANGED <<nodes, edges, selectedNodes, store>>
                /\ issued' = Append(issued, newId)
                /\ last' = [op |-> "dropIgnored", id |-> ""]
           ELSE /\ Render(Append(nodes, DroppedNode(newId, ParseData(data).label,
                                                   ParseData(data).nodeType,
                                                   position)),
                          edges)
                /\ issued' = Append(issued, newId)
                /\ last' = [op |-> "drop", id |-> newId]
    /\ nodeIdCounter' = NextCounter(nodeIdCounter)
    /\ localData' = Mounted(localData, nodes')
    /\ RenderNodes(nodes')
    /\ roundTrip' = 0
    /\ UNCHANGED <<deleteKey, connectionNodeId, storage, download, loaded,
                   savedGraph, sessions, dragging, pending>>

OnDrop(data, position) ==
    /\ Step
    /\ IF data = NoData
       THEN /\ UNCHANGED <<nodes, edges, selectedNodes, store, issued,
                           nodeIdCounter>>
            /\ last' = [op |-> "dropIgnored", id |-> ""]
       ELSE LET newId == GetNodeId(nodeIdCounter)
            IN  /\ Render(Append(nodes, DroppedNode(newId, ParseData(data).label,
                                                    ParseData(data).nodeType,
                                                    position)),
                          edges)
                /\ issued' = Append(issued, newId)
                /\ last' = [op |-> "drop", id |-> newId]
                /\ nodeIdCounter' = NextCounter(nodeIdCounter)
    /\ localData' = Mounted(localData, nodes')
    /\ RenderNodes(nodes')
    /\ roundTrip' = 0
    /\ UNCHANGED <<deleteKey, connectionNodeId, storage, download, loaded,
                   savedGraph, sessions, dragging, pending>>

\* handleSave that keeps an item the slot already holds
HandleSaveOnce(timestamp) ==
    /\ Step
    /\ storage' = IF storage = NoItem
                  THEN Stringify([ nodes |-> GetNodes(store.nodes),
                                   edges |-> GetEdges(store.edges),
                                   timestamp |-> timestamp ])
                  ELSE storage
    /\ savedGraph' = [nodes |-> nodes, edges |-> edges]
    /\ roundTrip' = 1
    /\ last' = [op |-> "save", id |-> "", timestamp |-> timestamp]
    /\ UNCHANGED <<nodes, edges, selectedNodes, store, deleteKey, nodeIdCounter,
                   localData, hover, connectionNodeId, download, loaded, issued,
                   sessions, dragging, pending>>

HandleSave(timestamp) ==
    /\ Step
    /\ storage' = Stringify([ nodes |-> GetNodes(store.nodes),
                              edges |-> GetEdges(store.edges),
                              timestamp |-> timestamp ])
    /\ savedGraph' = [nodes |-> nodes, edges |-> edges]
    /\ roundTrip' = 1
    /\ last' = [op |-> "save", id |-> "", timestamp |-> timestamp]
    /\ UNCHANGED <<nodes, edges, selectedNodes, store, deleteKey, nodeIdCounter,
                   localData, hover, connectionNodeId, download, loaded, issued,
                   sessions, dragging, pending>>

\* handleLoad without the test of the stored item
HandleLoadUnguarded ==
    /\ Step
    /\ Render(IF storage # NoItem THEN OrEmpty(Parse(storage), "nodes") ELSE <<>>,
              IF storage # NoItem THEN OrEmpty(Parse(storage), "edges") ELSE <<>>)
    /\ loaded' = storage
    /\ last' = [op |-> "load", id |-> ""]
    /\ roundTrip' = IF roundTrip = 2 THEN 3 ELSE 0
    /\ localData' = Mounted(localData, nodes')
    /\ RenderNodes(nodes')
    /\ UNCHANGED <<deleteKey, nodeIdCounter, connectionNodeId, storage,
                   download, issued, savedGraph, sessions, dragging, pending>>

\* handleLoad that gives up on a document that lacks a collection
HandleLoadStrict ==
    /\ Step
    /\ IF storage # NoItem /\ {"nodes", "edges"} \subseteq DOMAIN Parse(storage)
       THEN /\ Render(Parse(storage).nodes, Parse(storage).edges)
            /\ loaded' = storage
       ELSE UNCHANGED <<nodes, edges, selectedNodes, store, loaded>>
    /\ last' = [op |-> "load", id |-> ""]
    /\ roundTrip' = IF storage # NoItem /\ roundTrip = 2 THEN 3 ELSE 0
    /\ localData' = Mounted(localData, nodes')
    /\ RenderNodes(nodes')
    /\ UNCHANGED <<deleteKey, nodeIdCounter, connectionNodeId, storage,
                   download, issued, savedGraph, sessions, dragging, pending>>

HandleLoad ==
    /\ Step
    /\ IF storage # NoItem
       THEN /\ Render(OrEmpty(Parse(storage), "nodes"),
                      OrEmpty(Parse(storage), "edges"))
            /\ loaded' = storage
            /\ last' = [op |-> "load", id |-> ""]
            /\ roundTrip' = IF roundTrip = 2 THEN 3 ELSE 0
       ELSE /\ UNCHANGED <<nodes, edges, selectedNodes, store, loaded>>
            /\ last' = [op |-> "load", id |-> ""]
            /\ roundTrip' = 0
    /\ localData' = Mounted(localData, nodes')
    /\ RenderNodes(nodes')
    /\ UNCHANGED <<deleteKey, nodeIdCounter, connectionNodeId, storage,
                   download, issued, savedGraph, sessions, dragging, pending>>

\* handleClear without its setEdges call
HandleClearNodesOnly(confirmed) ==
    /\ Step
    /\ IF confirmed
       THEN /\ Render(<<>>, edges)
            /\ last' = [op |-> "clear", id |-> ""]
            /\ roundTrip' = IF roundTrip = 1 THEN 2 ELSE 0
       ELSE /\ UNCHANGED <<nodes, edges, selectedNodes, store>>
            /\ last' = [op |-> "clearDeclined", id |-> ""]
            /\ roundTrip' = 0
    /\ localData' = Mounted(localData, nodes')
    /\ RenderNodes(nodes')
    /\ UNCHANGED <<deleteKey, nodeIdCounter, connectionNodeId, storage,
                   download, loaded, issued, savedGraph, sessions, dragging, pending>>

HandleClear(confirmed) ==
    /\ Step
    /\ IF confirmed
       THEN /\ Render(<<>>, <<>>)
            /\ last' = [op |-> "clear", id |-> ""]
            /\ roundTrip' = IF roundTrip = 1 THEN 2 ELSE 0
       ELSE /\ UNCHANGED <<nodes, edges, selectedNodes, store>>
            /\ last' = [op |-> "clearDeclined", id |-> ""]
            /\ roundTrip' = 0
    /\ localData' = Mounted(localData, nodes')
    /\ RenderNodes(nodes')
    /\ UNCHANGED <<deleteKey, nodeIdCounter, connectionNodeId, storage,
                   download, loaded, issued, savedGraph, sessions, dragging, pending>>

\* the workflow object of handleExport
ExportWorkflow(ns, es) ==
    [ nodes |-> GetNodes(ns), edges |-> GetEdges(es),
      contractType |-> "ERC-20", network |-> "ethereum" ]

\* handleExport that also puts the text into the storage slot
HandleExportStoring ==
    /\ Step
    /\ download' = Stringify(ExportWorkflow(store.nodes, store.edges))
    /\ storage' = download'
    /\ last' = [op |-> "export", id |-> ""]
    /\ roundTrip' = 0
    /\ UNCHANGED <<nodes, edges, selectedNodes, store, deleteKey, nodeIdCounter,
                   localData, hover, connectionNodeId, loaded, issued, savedGraph,
                   sessions, dragging, pending>>

\* handleExport: the text goes into the href of a link that is clicked
HandleExport ==
    /\ Step
    /\ download' = Stringify(ExportWorkflow(store.nodes, store.edges))
    /\ last' = [op |-> "export", id |-> ""]
    /\ roundTrip' = 0
    /\ UNCHANGED <<nodes, edges, selectedNodes, store, deleteKey, nodeIdCounter,
                   localData, hover, connectionNodeId, storage, loaded, issued,
                   savedGraph, sessions, dragging, pending>>

\* another writer of the origin's localStorage (another tab, an earlier
\* version of the page, the developer tools) puts a document into the slot
ForeignSetItem(document) ==
    /\ Step
    /\ storage' = document
    /\ last' = [op |-> "foreignSetItem", id |-> ""]
    /\ roundTrip' = 0
    /\ UNCHANGED <<nodes, edges, selectedNodes, store, deleteKey, nodeIdCounter,
                   localData, hover, connectionNodeId, download, loaded, issued,
                   savedGraph, sessions, dragging, pending>>

----------------------------------------------------------------------------
(* The two delete paths statement by statement.  A setNodes, setEdges or    *)
(* setSelectedNodes call made while a handler or an effect runs queues a    *)
(* state update; React renders once the handler has returned, with all the  *)
(* queued updates applied.  Nothing else runs while a handler runs.         *)

\* a queued update applied to the state of Flow
Apply(update, state) ==
    IF update.kind = "resetNodes" THEN [state EXCEPT !.nodes = update.items]
    ELSE IF update.kind = "resetEdges" THEN [state EXCEPT !.edges = update.items]
    ELSE IF update.kind = "filterNodes"
    THEN [state EXCEPT !.nodes =
             SelectSeq(@, LAMBDA node : node.id \notin update.ids)]
    ELSE IF update.kind = "filterEdges"
    THEN [state EXCEPT !.edges =
             SelectSeq(@, LAMBDA edge : /\ edge.source \notin update.ids
                                        /\ edge.target \notin update.ids)]
    ELSE [state EXCEPT !.selectedNodes = update.items]

RECURSIVE ApplyAll(_, _)
ApplyAll(updates, state) ==
    IF updates = <<>> THEN state
    ELSE ApplyAll(Tail(updates), Apply(Head(updates), state))

\* a state update that is rendered at once, before the next statement
SetStateUnbatched(update) ==
    LET after == Apply(update, [nodes |-> nodes, edges |-> edges,
                                selectedNodes |-> selectedNodes])
    IN  /\ nodes' = after.nodes
        /\ edges' = after.edges
        /\ selectedNodes' = after.selectedNodes
        /\ store' = StoreUpdater(after.nodes, after.edges)
        /\ pending' = pending

\* a state update made inside a handler
SetState(update) ==
    /\ pending' = Append(pending, update)
    /\ UNCHANGED <<nodes, edges, selectedNodes, store>>

\* a handler or an effect is between two of its statements, or has returned
\* and React has not rendered yet
Busy ==
    \/ last.op \in {"deleteSetNodes", "deleteSetEdges", "keySetNodes",
                    "keySetEdges", "keySetSelected"}
    \/ last.op = "keyDownRender" /\ deleteKey /\ Len(selectedNodes) > 0

\* handleDelete: confirm(...) answered yes, then setNodes(...)
HandleDeleteSetNodes(id) ==
    /\ Step
    /\ ~Busy
    /\ id \in NodeIds(nodes)
    /\ SetState([kind |-> "resetNodes", ids |-> {},
                 items |-> DeleteNodeFromNodes(GetNodes(store.nodes), id)])
    /\ last' = [op |-> "deleteSetNodes", id |-> id]
    /\ localData' = Mounted(localData, nodes')
    /\ RenderNodes(nodes')
    /\ roundTrip' = 0
    /\ UNCHANGED <<deleteKey, nodeIdCounter, connectionNodeId, storage,
                   download, loaded, issued, savedGraph, sessions, dragging>>

\* handleDelete: setEdges(...)
HandleDeleteSetEdges ==
    /\ last.op = "deleteSetNodes"
    /\ SetState([kind |-> "resetEdges", ids |-> {},
                 items |-> DeleteNodeFromEdges(GetEdges(store.edges), last.id)])
    /\ last' = [op |-> "deleteSetEdges", id |-> last.id]
    /\ localData' = Mounted(localData, nodes')
    /\ RenderNodes(nodes')
    /\ UNCHANGED <<deleteKey, nodeIdCounter, connectionNodeId, storage,
                   download, loaded, issued, savedGraph, roundTrip, sessions, dragging,
                   prev, steps>>

\* Delete or Backspace goes down: Flow renders with deleteKey true and the
\* keyboard effect is due
KeyDownRender ==
    /\ Step
    /\ ~Busy
    /\ ~deleteKey
    /\ deleteKey' = TRUE
    /\ last' = [op |-> "keyDownRender", id |-> ""]
    /\ roundTrip' = 0
    /\ UNCHANGED <<nodes, edges, selectedNodes, store, nodeIdCounter, localData, hover,
                   connectionNodeId, storage, download, pending, loaded,
                   issued, savedGraph, sessions, dragging>>

\* the keyboard effect: its test, then setNodes(...)
DeleteKeySetNodes ==
    /\ last.op = "keyDownRender"
    /\ deleteKey /\ Len(selectedNodes) > 0
    /\ SetState([kind |-> "filterNodes", ids |-> Range(selectedNodes),
                 items |-> <<>>])
    /\ last' = [op |-> "keySetNodes", id |-> ""]
    /\ localData' = Mounted(localData, nodes')
    /\ RenderNodes(nodes')
    /\ UNCHANGED <<deleteKey, nodeIdCounter, connectionNodeId, storage,
                   download, loaded, issued, savedGraph, roundTrip, sessions, dragging,
                   prev, steps>>

\* the keyboard effect: setEdges(...)
DeleteKeySetEdges ==
    /\ last.op = "keySetNodes"
    /\ SetState([kind |-> "filterEdges", ids |-> Range(selectedNodes),
                 items |-> <<>>])
    /\ last' = [op |-> "keySetEdges", id |-> ""]
    /\ localData' = Mounted(localData, nodes')
    /\ RenderNodes(nodes')
    /\ UNCHANGED <<deleteKey, nodeIdCounter, connectionNodeId, storage,
                   download, loaded, issued, savedGraph, roundTrip, sessions, dragging,
                   prev, steps>>

\* the keyboard effect: setSelectedNodes([])
DeleteKeySetSelected ==
    /\ last.op = "keySetEdges"
    /\ SetState([kind |-> "setSelectedNodes", ids |-> {}, items |-> <<>>])
    /\ last' = [op |-> "keySetSelected", id |-> ""]
    /\ localData' = Mounted(localData, nodes')
    /\ RenderNodes(nodes')
    /\ UNCHANGED <<deleteKey, nodeIdCounter, connectionNodeId, storage,
                   download, loaded, issued, savedGraph, roundTrip, sessions, dragging,
                   prev, steps>>

\* the handler or the effect has returned: React renders with the queued
\* updates applied in the order of their calls
Commit ==
    /\ last.op \in {"deleteSetEdges", "keySetSelected"}
    /\ LET state == ApplyAll(pending, [nodes |-> nodes, edges |-> edges,
                                       selectedNodes |-> selectedNodes])
           after == AfterRender(deleteKey, state.selectedNodes, state.nodes,
                                state.edges)
       IN  /\ nodes' = after.nodes
           /\ edges' = after.edges
           /\ selectedNodes' = after.selectedNodes
           /\ store' = StoreUpdater(after.nodes, after.edges)
    /\ pending' = <<>>
    /\ last' = [op |-> "commit", id |-> last.id, of |-> last.op]
    /\ localData' = Mounted(localData, nodes')
    /\ RenderNodes(nodes')
    /\ UNCHANGED <<deleteKey, nodeIdCounter, connectionNodeId, storage,
                   download, loaded, issued, savedGraph, roundTrip, sessions, dragging,
                   prev, steps>>

----------------------------------------------------------------------------
\* the page is loaded again: the module and the components start afresh,
\* localStorage keeps its item
Reload ==
    /\ UNCHANGED steps
    /\ prev' = [nodes |-> <<>>, edges |-> <<>>, selectedNodes |-> <<>>,
                storage |-> storage, nodeIdCounter |-> InitialCounter]
    /\ sessions < MaxSessions
    /\ sessions' = sessions + 1
    /\ nodes' = initialNodes
    /\ edges' = <<>>
    /\ selectedNodes' = <<>>
    /\ deleteKey' = FALSE
    /\ nodeIdCounter' = InitialCounter
    /\ localData' = Mounted(<<>>, initialNodes)
    /\ isHovered' = [id \in NodeIds(initialNodes) |-> FALSE]
    /\ showActions' = [id \in NodeIds(initialNodes) |-> FALSE]
    /\ actionTimeout' = [id \in NodeIds(initialNodes) |-> 0]
    /\ timers' = {}
    /\ timerCount' = 0
    /\ connectionNodeId' = ""
    /\ dragging' = ""
    /\ store' = [nodes |-> initialNodes, edges |-> <<>>]
    /\ pending' = <<>>
    /\ loaded' = NoItem
    /\ issued' = <<>>
    /\ roundTrip' = 0
    /\ last' = [op |-> "reload", id |-> ""]
    /\ UNCHANGED <<storage, download, savedGraph>>

----------------------------------------------------------------------------
EditInputs(id) ==
    {PromptNull} \cup {PromptText(t) : t \in {"", localData[id].label} \cup NewLabels}

Next ==
    \/ \E id \in NodeIds(nodes) : \E newLabel \in EditInputs(id) :
           HandleEdit(id, newLabel)
    \/ \E id \in NodeIds(nodes) : \E confirmed \in BOOLEAN :
           HandleDelete(id, confirmed)
    \/ \E id \in NodeIds(nodes) : HandleDuplicate(id)
    \/ \E S \in SUBSET NodeIds(nodes) : SelectionChange(S)
    \/ KeyDown
    \/ KeyUp
    \/ \E source, target \in NodeIds(nodes) : OnConnect(source, target)
    \/ \E data \in DropData : \E position \in DropPositions :
           OnDrop(data, position)
    \/ \E timestamp \in Timestamps : HandleSave(timestamp)
    \/ HandleLoad
    \/ \E confirmed \in BOOLEAN : HandleClear(confirmed)
    \/ HandleExport
    \/ Reload

Spec == Init /\ [][Next]_vars

\* graph editing within one page session: the handlers that add and remove
\* nodes and edges
NextGraph ==
    \/ \E id \in NodeIds(nodes) : \E confirmed \in BOOLEAN :
           HandleDelete(id, confirmed)
    \/ \E id \in NodeIds(nodes) : HandleDuplicate(id)
    \/ \E source, target \in NodeIds(nodes) : OnConnect(source, target)
    \/ \E data \in PaletteData : \E position \in DropPositions :
           OnDrop(data, position)

SpecGraph == Init /\ [][NextGraph]_vars

\* the toolbar and the storage slot across page loads, on graphs built by
\* drops and connections, with a selection
NextStore ==
    \/ \E S \in SUBSET NodeIds(nodes) : SelectionChange(S)
    \/ \E source, target \in NodeIds(nodes) : OnConnect(source, target)
    \/ \E data \in PaletteData : \E position \in DropPositions :
           OnDrop(data, position)
    \/ \E timestamp \in Timestamps : HandleSave(timestamp)
    \/ HandleLoad
    \/ \E confirmed \in BOOLEAN : HandleClear(confirmed)
    \/ Reload

SpecStore == Init /\ [][NextStore]_vars

\* the connection drag as the two pointer events it is made of, with the
\* keyboard in between; the pointer is busy while a drag is under way
NextConnect ==
    \/ /\ connectionNodeId = ""
       /\ \E S \in SUBSET NodeIds(nodes) : SelectionChange(S)
    \/ /\ connectionNodeId = ""
       /\ \E data \in PaletteData : \E position \in DropPositions :
              OnDrop(data, position)
    \/ \E source \in NodeIds(nodes) : OnConnectStart(source)
    \/ /\ connectionNodeId # ""
       /\ \E target \in NodeIds(nodes) : OnConnect(connectionNodeId, target)
    \/ OnConnectEnd
    \/ KeyDown
    \/ KeyUp

SpecConnect == Init /\ [][NextConnect]_vars

\* a document without the key
Without(document, key) == [k \in DOMAIN document \ {key} |-> document[k]]

\* documents that did not come from handleSave of this page: a graph of
\* three nodes and two edges, the same without its nodes, without its edges,
\* without both, and with node-2 taken out of the nodes only
ForeignDocuments ==
    LET node3 == DroppedNode("node-3", "New Deploy", "Deploy",
                             [x |-> 250, y |-> 300])
        edge12 == [id |-> EdgeId("node-1", "node-2"), source |-> "node-1",
                   target |-> "node-2"]
        edge23 == [id |-> EdgeId("node-2", "node-3"), source |-> "node-2",
                   target |-> "node-3"]
        whole == Stringify([ nodes |-> initialNodes \o <<node3>>,
                             edges |-> <<edge12, edge23>>,
                             timestamp |-> "2023-12-31T00:00:00.000Z" ])
        dangling == Stringify([ nodes |-> <<initialNodes[1], node3>>,
                                edges |-> <<edge12, edge23>>,
                                timestamp |-> "2023-12-31T00:00:00.000Z" ])
    IN  { whole, Without(whole, "nodes"), Without(whole, "edges"),
          Without(Without(whole, "nodes"), "edges"), dangling }

\* the page next to other writers of the storage slot
NextForeign ==
    \/ \E document \in ForeignDocuments : ForeignSetItem(document)
    \/ HandleLoad
    \/ \E id \in NodeIds(nodes) : HandleDuplicate(id)
    \/ \E source, target \in NodeIds(nodes) : OnConnect(source, target)
    \/ \E data \in PaletteData : \E position \in DropPositions :
           OnDrop(data, position)

SpecForeign == Init /\ [][NextForeign]_vars

\* the delete paths statement by statement, next to the readers of the lists
NextBatch ==
    \/ /\ ~Busy
       /\ \E S \in SUBSET NodeIds(nodes) : SelectionChange(S)
    \/ /\ ~Busy
       /\ \E source, target \in NodeIds(nodes) : OnConnect(source, target)
    \/ /\ ~Busy
       /\ \E timestamp \in Timestamps : HandleSave(timestamp)
    \/ /\ ~Busy
       /\ HandleExport
    \/ \E id \in NodeIds(nodes) : HandleDeleteSetNodes(id)
    \/ HandleDeleteSetEdges
    \/ KeyDownRender
    \/ DeleteKeySetNodes
    \/ DeleteKeySetEdges
    \/ DeleteKeySetSelected
    \/ Commit
    \/ /\ ~Busy
       /\ KeyUp

SpecBatch == Init /\ [][NextBatch]_vars

\* the gestures in the order the user makes them, with the node drag as the
\* pointer events it is made of and the keyboard in between; the pointer
\* makes no other gesture while a drag is under way
NextOrder ==
    \/ /\ dragging = ""
       /\ \E id \in NodeIds(nodes) : \E newLabel \in EditInputs(id) :
              HandleEdit(id, newLabel)
    \/ /\ dragging = ""
       /\ \E id \in NodeIds(nodes) : \E confirmed \in BOOLEAN :
              HandleDelete(id, confirmed)
    \/ /\ dragging = ""
       /\ \E id \in NodeIds(nodes) : HandleDuplicate(id)
    \/ /\ dragging = ""
       /\ \E source, target \in NodeIds(nodes) : OnConnect(source, target)
    \/ /\ dragging = ""
       /\ \E data \in PaletteData : \E position \in DropPositions :
              OnDrop(data, position)
    \/ /\ dragging = ""
       /\ \E timestamp \in Timestamps : HandleSave(timestamp)
    \/ /\ dragging = ""
       /\ HandleLoad
    \/ /\ dragging = ""
       /\ \E confirmed \in BOOLEAN : HandleClear(confirmed)
    \/ \E id \in NodeIds(nodes) : OnNodeDragStart(id)
    \/ \E position \in DragPositions : OnNodeDrag(position)
    \/ OnNodeDragStop
    \/ KeyDown
    \/ KeyUp

SpecOrder == Init /\ [][NextOrder]_vars

\* the pointer over the nodes while nodes come and go; a timeout that is
\* set expires after its delay
NextHover ==
    \/ \E id \in NodeIds(nodes) : HandleMouseEnter(id)
    \/ \E id \in NodeIds(nodes) : HandleMouseLeave(id)
    \/ TimerExpires
    \/ \E id \in NodeIds(nodes) : \E confirmed \in BOOLEAN :
           HandleDelete(id, confirmed)
    \/ \E data \in PaletteData : \E position \in DropPositions :
           OnDrop(data, position)

SpecHover == Init /\ [][NextHover]_vars /\ WF_vars(TimerExpires)

----------------------------------------------------------------------------
(* Properties *)

Touches(edge, id) == edge.source = id \/ edge.target = id

EdgeTriples(es) == {<<es[i].id, es[i].source, es[i].target>> : i \in DOMAIN es}

NoDuplicates(s) == \A i, j \in DOMAIN s : i # j => s[i] # s[j]

\* C1: after a confirmed per-node delete of node n, the graph has no node
\* with id n and no edge whose source or target is n.
CascadingDelete ==
    last.op = "delete" =>
        /\ last.id \notin NodeIds(nodes)
        /\ \A i \in DOMAIN edges : ~Touches(edges[i], last.id)

\* a node with an incoming and an outgoing edge has just been deleted
CascadingDeleteWitness ==
    /\ last.op = "delete"
    /\ last.id \in NodeIds(prev.nodes)
    /\ \E i, j \in DOMAIN prev.edges :
           /\ prev.edges[i].source = last.id /\ prev.edges[i].target # last.id
           /\ prev.edges[j].target = last.id /\ prev.edges[j].source # last.id

\* C2: in every reachable state every edge's source and target are ids of
\* nodes in the node list of that state.
ReferentialIntegrity ==
    \A i \in DOMAIN edges :
        /\ edges[i].source \in NodeIds(nodes)
        /\ edges[i].target \in NodeIds(nodes)

\* C3: in every reachable state no two nodes share an id and no two edges
\* share an id.
IdsUnique ==
    /\ NoDuplicates(Ids(nodes))
    /\ NoDuplicates(Ids(edges))

\* C4: connect(a, b) leaves exactly one edge from a to b, and when such an
\* edge was there before the call the edge list is as it was.
ConnectIdempotent ==
    \A a, b \in NodeIds(nodes) :
        (last.op = "connect" /\ last.id = EdgeId(a, b)) =>
            /\ Cardinality({i \in DOMAIN edges :
                               edges[i].source = a /\ edges[i].target = b}) = 1
            /\ (\E i \in DOMAIN prev.edges :
                    prev.edges[i].source = a /\ prev.edges[i].target = b)
               => edges = prev.edges

\* connect has been called for a pair that was connected already
ConnectIdempotentWitness ==
    /\ last.op = "connect"
    /\ \E i \in DOMAIN prev.edges : prev.edges[i].id = last.id
    /\ Len(edges) = 2

\* C5: after save, clear and load in succession the graph has the node ids
\* and the edges (id, source, target) it had when it was saved, each once.
SaveClearLoadRestores ==
    roundTrip = 3 =>
        /\ NodeIds(nodes) = NodeIds(savedGraph.nodes)
        /\ EdgeTriples(edges) = EdgeTriples(savedGraph.edges)
        /\ NoDuplicates(Ids(savedGraph.nodes))
           => Ids(nodes) = Ids(savedGraph.nodes)
        /\ Ids(edges) = Ids(savedGraph.edges)

\* a graph of two nodes and one edge between them has gone through save,
\* clear and load
SaveClearLoadWitness ==
    /\ roundTrip = 3
    /\ prev.nodes = <<>>
    /\ Len(nodes) = 2
    /\ Len(edges) = 1
    /\ edges[1].source # edges[1].target

\* C6: a confirmed delete of node n removes node n and the edges that touch
\* n and nothing else: every other node is there with its fields, and the
\* edge list holds the other edges, each once, and no more.
DeleteRemovesExactly ==
    last.op = "delete" =>
        /\ NodeIds(nodes) = NodeIds(prev.nodes) \ {last.id}
        /\ \A id \in NodeIds(nodes) : GetNode(nodes, id) = GetNode(prev.nodes, id)
        /\ NoDuplicates(Ids(nodes))
        /\ \A i \in DOMAIN prev.edges :
               ~Touches(prev.edges[i], last.id)
               => \E j \in DOMAIN edges : edges[j] = prev.edges[i]
        /\ \A j \in DOMAIN edges :
               \E i \in DOMAIN prev.edges : edges[j] = prev.edges[i]
        /\ Len(edges) = Cardinality({i \in DOMAIN prev.edges :
                                        ~Touches(prev.edges[i], last.id)})

\* the scenario of the claim with one more edge that stays: of two nodes with
\* an edge between them and a loop on the second, the first is deleted
DeleteRemovesExactlyWitness ==
    /\ last.op = "delete"
    /\ Len(prev.nodes) = 2
    /\ Len(prev.edges) = 2
    /\ Len(nodes) = 1
    /\ Len(edges) = 1

\* C7: duplicate of a present node n appends one node whose id is in no node
\* of the graph before, with n's type, description, status and config, n's
\* position plus (50, 50) and n's label with " (Copy)" appended; the nodes
\* before and the edge list are as they were.
DuplicateAddsFreshCopy ==
    last.op = "duplicate" =>
        LET n == GetNode(prev.nodes, last.id)
            copy == nodes[Len(nodes)]
        IN  /\ Len(nodes) = Len(prev.nodes) + 1
            /\ SubSeq(nodes, 1, Len(prev.nodes)) = prev.nodes
            /\ copy.id \notin NodeIds(prev.nodes)
            /\ copy.type = n.type
            /\ copy.data.type = n.data.type
            /\ copy.data.config = n.data.config
            /\ copy.data.description = n.data.description
            /\ copy.data.status = n.data.status
            /\ copy.position = [x |-> n.position.x + 50, y |-> n.position.y + 50]
            /\ copy.data.label = n.data.label \o " (Copy)"
            /\ edges = prev.edges

\* C8: within a page session getNodeId never returns an id it returned
\* before, nor the id of an initial node.
GeneratorNeverRepeats ==
    /\ NoDuplicates(issued)
    /\ \A i \in DOMAIN issued : issued[i] \notin NodeIds(initialNodes)

\* three ids have been handed out in one session, to drops and duplicates
GeneratorNeverRepeatsWitness ==
    /\ Len(issued) = 3
    /\ last.op = "duplicate"
    /\ \E i \in DOMAIN nodes : nodes[i].data.label = "New Deploy"

\* C9: after a load that replaced the graph, the ids the counter hands out
\* next are ids of no loaded node.
CounterClearOfLoadedIds ==
    (last.op = "load" /\ storage # NoItem) =>
        \A k \in nodeIdCounter..(nodeIdCounter + MaxSteps) :
            GetNodeId(k) \notin NodeIds(nodes)

\* C10: a load while the storage slot is empty leaves the node list, the
\* edge list and the selection as they are.
LoadOfNothingChangesNothing ==
    [][(last'.op = "load" /\ storage = NoItem)
       => UNCHANGED <<nodes, edges, selectedNodes>>]_vars

\* load has run on the empty slot with a node selected and an edge drawn
LoadOfNothingWitness ==
    /\ last.op = "load"
    /\ storage = NoItem
    /\ selectedNodes # <<>>
    /\ edges # <<>>
    /\ edges = prev.edges

\* the edge list of a stored document refers to a node its node list lacks
HasDanglingEdge(document) ==
    \E i \in DOMAIN OrEmpty(Parse(document), "edges") :
        LET edge == OrEmpty(Parse(document), "edges")[i]
        IN  \/ edge.source \notin NodeIds(OrEmpty(Parse(document), "nodes"))
            \/ edge.target \notin NodeIds(OrEmpty(Parse(document), "nodes"))

\* C11: a load of a stored document that lacks the nodes or the edges
\* collection goes through: the graph gets an empty list for each missing
\* collection and the stored list for each collection the document has.
LoadFillsMissingCollections ==
    (last.op = "load" /\ storage # NoItem) =>
        /\ loaded = storage
        /\ IF "nodes" \in DOMAIN storage
           THEN [i \in DOMAIN nodes |-> StringifyNode(nodes[i])] = storage.nodes
           ELSE nodes = <<>>
        /\ IF "edges" \in DOMAIN storage
           THEN [i \in DOMAIN edges |-> StringifyEdge(edges[i])] = storage.edges
           ELSE edges = <<>>

\* a document with edges and without the nodes key has been loaded over a
\* graph that had nodes
LoadFillsMissingCollectionsWitness ==
    /\ last.op = "load"
    /\ storage # NoItem
    /\ "nodes" \notin DOMAIN storage
    /\ "edges" \in DOMAIN storage
    /\ prev.nodes # <<>>
    /\ nodes = <<>>
    /\ edges # <<>>

\* C12: after a load of a document with an edge to a node it lacks, and
\* after the connects, drops and duplicates that follow it, no two nodes
\* share an id and no two edges share an id.
DanglingLoadKeepsIdsUnique ==
    (loaded # NoItem /\ HasDanglingEdge(loaded)) =>
        /\ NoDuplicates(Ids(nodes))
        /\ NoDuplicates(Ids(edges))

\* C13: a connect whose source or target is no node of the graph adds no
\* edge: the edge list is as it was.
ConnectAbsentAddsNothing ==
    (/\ last.op = "connect"
     /\ \/ last.source \notin NodeIds(prev.nodes)
        \/ last.target \notin NodeIds(prev.nodes))
    => edges = prev.edges

\* C14: a palette drop appends exactly one node: its id is fresh, its type
\* is the dropped block, its label "New {type}", its status idle, its config
\* empty, its position the drop position; the nodes before and the edge list
\* are as they were.
DropAddsFreshNode ==
    last.op = "drop" =>
        LET node == nodes[Len(nodes)]
        IN  /\ Len(nodes) = Len(prev.nodes) + 1
            /\ SubSeq(nodes, 1, Len(prev.nodes)) = prev.nodes
            /\ node.id = last.id
            /\ node.id \notin NodeIds(prev.nodes)
            /\ node.data.type \in PaletteTypes
            /\ node.data.label = "New " \o node.data.type
            /\ node.data.status = "idle"
            /\ node.data.config = EmptyConfig
            /\ node.position \in DropPositions
            /\ edges = prev.edges

\* C15: save puts the current nodes and edges with the timestamp into the
\* slot whatever it held, and the slot keeps that document, untouched by
\* later changes of the graph, until the next save.
SavedDocumentIsSnapshot ==
    /\ last.op = "save" =>
           /\ savedGraph = [nodes |-> nodes, edges |-> edges]
           /\ storage # NoItem
           /\ storage.timestamp = last.timestamp
    /\ storage # NoItem =>
           /\ DOMAIN storage = {"nodes", "edges", "timestamp"}
           /\ Parse(storage).nodes = GetNodes(savedGraph.nodes)
           /\ Parse(storage).edges = GetEdges(savedGraph.edges)

\* a save has replaced a document that differed from the graph of this
\* save: the graph was changed after the earlier save and the slot was not
SavedDocumentIsSnapshotWitness ==
    /\ last.op = "save"
    /\ prev.storage # NoItem
    /\ prev.storage # storage
    /\ Parse(prev.storage).nodes # GetNodes(nodes)

\* a stored text that has the metadata keys of the export
IsExport(document) ==
    /\ document # NoItem
    /\ {"contractType", "network"} \subseteq DOMAIN document

\* C16: export leaves the node list, the edge list, the selection and the
\* storage slot as they are, and neither the slot nor a load ever holds an
\* exported document.
ExportIsOneWay ==
    /\ last.op = "export" =>
           /\ IsExport(download)
           /\ nodes = prev.nodes
           /\ edges = prev.edges
           /\ selectedNodes = prev.selectedNodes
           /\ storage = prev.storage
    /\ ~IsExport(storage)
    /\ ~IsExport(loaded)

\* a graph with a selected node was exported and a load has run afterwards
ExportIsOneWayWitness ==
    /\ last.op = "load"
    /\ loaded # NoItem
    /\ IsExport(download)
    /\ \E i \in DOMAIN download.nodes : download.nodes[i][10]

\* C17: a confirmed clear leaves the node list and the edge list empty; a
\* declined one leaves both as they were.
ClearEmptiesBoth ==
    /\ last.op = "clear" => (nodes = <<>> /\ edges = <<>>)
    /\ last.op = "clearDeclined" => (nodes = prev.nodes /\ edges = prev.edges)

\* a graph with nodes and edges has been cleared
ClearEmptiesBothWitness ==
    /\ last.op = "clear"
    /\ Len(prev.nodes) >= 3
    /\ Len(prev.edges) >= 1

DeleteIsIndivisible ==
    /\ \A id \in NodeIds(prev.nodes) \ NodeIds(nodes) :
           \A i \in DOMAIN edges : ~Touches(edges[i], id)
    /\ storage # NoItem => ~HasDanglingEdge(storage)
    /\ download # NoItem => ~HasDanglingEdge(download)

\* the keyboard effect has run its three statements on a selected node with
\* an edge, and React has rendered their updates in one pass
DeleteIsIndivisibleWitness ==
    /\ last.op = "commit"
    /\ last.of = "keySetSelected"
    /\ pending = <<>>
    /\ Len(nodes) < Len(prev.nodes)
    /\ Len(edges) < Len(prev.edges)
    /\ selectedNodes = <<>>

SelectionNeverPersisted ==
    /\ (last.op = "load" /\ storage # NoItem) => selectedNodes = <<>>
    /\ last.op = "clear" => selectedNodes = <<>>
    /\ storage # NoItem =>
           \A i \in DOMAIN OrEmpty(Parse(storage), "nodes") :
               ~Parse(storage).nodes[i].selected

\* C22: after the duplicate action on a node the selection is the id of the
\* new node and nothing else.
DuplicateSelectsCopy ==
    last.op = "duplicate" => selectedNodes = <<last.newId>>

\* C23: the edit action puts the entered label on the node if and only if
\* the label is non-empty and differs from the node's label in the graph;
\* the node's other fields, the other nodes and the edges stay as they were,
\* and a cancelled or empty prompt changes nothing.
EditReplacesLabel ==
    last.op \in {"edit", "editSkipped"} =>
        LET differs == /\ ~last.entered.isNull
                       /\ last.entered.text # ""
                       /\ last.entered.text #
                              GetNode(prev.nodes, last.id).data.label
        IN  /\ Len(nodes) = Len(prev.nodes)
            /\ \A i \in DOMAIN prev.nodes :
                   nodes[i] = IF prev.nodes[i].id = last.id /\ differs
                              THEN [prev.nodes[i] EXCEPT
                                       !.data.label = last.entered.text]
                              ELSE prev.nodes[i]
            /\ edges = prev.edges

\* the handler that ran last asked confirm() and was answered yes
Confirmed == last.op \in {"delete", "clear"}

\* C24: Delete or Backspace on a non-empty selection and the clear action
\* change the node list or the edge list only after the user has confirmed,
\* and leave both as they were when the user declines.
DestructionIsConfirmed ==
    (/\ last.op \in {"keyDown", "clear", "clearDeclined"}
     /\ (nodes # prev.nodes \/ edges # prev.edges))
    => Confirmed

\* the first list is the beginning of the second
IsPrefix(s, t) == Len(s) <= Len(t) /\ SubSeq(t, 1, Len(s)) = s

\* C25: every gesture works on the graph the gesture before it has left, so
\* nothing an earlier gesture did is lost or undone: a delete takes away its
\* node and the edges at it and nothing else, a duplicate and a drop add
\* their node to the nodes that were there, a connect adds to the edges that
\* were there, a clear and a load replace the graph, and an edit or a move
\* changes its node in place and creates no node, also when the node has
\* been deleted in the meantime.
GesturesApplyInOrder ==
    /\ last.op = "delete" =>
           /\ NodeIds(nodes) = NodeIds(prev.nodes) \ {last.id}
           /\ edges = DeleteNodeFromEdges(prev.edges, last.id)
    /\ last.op = "duplicate" =>
           /\ NodeIds(nodes) = NodeIds(prev.nodes) \cup {last.newId}
           /\ edges = prev.edges
    /\ last.op = "drop" =>
           /\ IsPrefix(prev.nodes, nodes)
           /\ Len(nodes) = Len(prev.nodes) + 1
           /\ edges = prev.edges
    /\ last.op = "connect" =>
           /\ nodes = prev.nodes
           /\ IsPrefix(prev.edges, edges)
    /\ last.op = "clear" => (nodes = <<>> /\ edges = <<>>)
    /\ (last.op = "load" /\ storage # NoItem) =>
           /\ NodeIds(nodes) \subseteq NodeIds(OrEmpty(Parse(storage), "nodes"))
           /\ Range(edges) \subseteq Range(OrEmpty(Parse(storage), "edges"))
    /\ last.op \in {"edit", "editSkipped"} =>
           /\ NodeIds(nodes) = NodeIds(prev.nodes)
           /\ \A id \in NodeIds(nodes) \ {last.id} :
                  GetNode(nodes, id) = GetNode(prev.nodes, id)
           /\ edges = prev.edges
    /\ last.op = "move" =>
           /\ nodes = ApplyPositionChange(prev.nodes, last.id, last.position)
           /\ NodeIds(nodes) = NodeIds(prev.nodes)
           /\ edges = prev.edges

\* a node drag was under way when Delete removed the dragged node, and the
\* next move of the pointer has left the remaining graph as it was
GesturesApplyInOrderWitness ==
    /\ last.op = "move"
    /\ last.id \notin NodeIds(prev.nodes)
    /\ nodes = prev.nodes
    /\ nodes # <<>>
    /\ deleteKey

\* C26: in every reachable state the label a node component shows is the
\* label the graph holds for its id.
LocalLabelMatchesGraph ==
    \A id \in NodeIds(nodes) :
        localData[id].label = GetNode(nodes, id).data.label

\* C27: a change of the selection alone removes no node and no edge, whether
\* the key is held down after a deletion or is up.
SelectionChangeRemovesNothing ==
    last.op = "select" =>
        /\ Ids(nodes) = Ids(prev.nodes)
        /\ edges = prev.edges

EmptyDropChangesNothing ==
    last.op = "dropIgnored" =>
        /\ nodes = prev.nodes
        /\ edges = prev.edges
        /\ selectedNodes = prev.selectedNodes
        /\ nodeIdCounter = prev.nodeIdCounter

\* a drop without data has come after a palette drop and a connection, and
\* the counter stands where the palette drop left it
EmptyDropChangesNothingWitness ==
    /\ last.op = "dropIgnored"
    /\ nodeIdCounter = InitialCounter + 1
    /\ Len(nodes) = 3
    /\ edges # <<>>

\* every timeout that is pending is the one its node's component holds in
\* actionTimeout.current, and that component is mounted
HoverTimersTidy ==
    /\ \A t \in timers :
           /\ t.node \in DOMAIN actionTimeout
           /\ actionTimeout[t.node] = t.id
    /\ \A t1, t2 \in timers : t1.node = t2.node => t1 = t2

\* the action bar of every node is shown exactly when the pointer is on it
HoverSettled ==
    \A id \in DOMAIN showActions : showActions[id] = isHovered[id]

\* C30: over every interleaving of mouse-enter, mouse-leave, timer expiry
\* and unmount, a node has at most one action timer pending and a pending
\* timer belongs to a mounted node (so none fires after unmount), and once
\* the events have stopped the action bar ends up shown where the last event
\* was mouse-enter and hidden where it was mouse-leave.
HoverTimerSettles == []HoverTimersTidy /\ <>[]HoverSettled

\* two nodes were entered, one of them was deleted while its timer was
\* pending, and the timer of the other has fired and shows its action bar
HoverTimerSettlesWitness ==
    /\ last.op = "timer"
    /\ timerCount = 2
    /\ timers = {}
    /\ Len(nodes) = 1
    /\ Len(prev.nodes) = 2
    /\ \A id \in DOMAIN showActions : showActions[id] /\ isHovered[id]

====
